---- MODULE Spec2Model ----
(***************************************************************************)
(* Model of t5/t5/utils/sophia.py: the four Sophia optimizers SophiaG,     *)
(* SophiaG_RMS, SophiaG_OG and SophiaG_RMSD, their update_hessian and step *)
(* sweeps, the per-tensor kernels and the restore path __setstate__.       *)
(*                                                                         *)
(* Every tensor of the model has one element, so rms(t) = |t| and the      *)
(* elementwise operations act on that element.  A number is a tuple        *)
(* <<n, d, a, b>> standing for (n / d) * 2^a * 5^b, kept in a canonical    *)
(* form (n and d coprime to each other and to 10, d > 0), so that equal    *)
(* numbers are equal tuples.  The arithmetic is exact; the one place       *)
(* where the rounding of a float32 tensor is modelled is the sum           *)
(* rho * bs * hess + 1e-15 (AddEps).                                       *)
(***************************************************************************)
EXTENDS Integers, Sequences, FiniteSets, TLC

----------------------------------------------------------------------------
(* Numbers *)

RECURSIVE GCD(_, _)
GCD(a, b) == IF b = 0 THEN a ELSE GCD(b, a % b)

IAbs(i) == IF i < 0 THEN 0 - i ELSE i
IMin(i, j) == IF i < j THEN i ELSE j
IMax(i, j) == IF i < j THEN j ELSE i

\* u * base^k
RECURSIVE Pow(_, _, _)
Pow(u, base, k) == IF k = 0 THEN u ELSE Pow(u * base, base, k - 1)

\* the factors 2 and 5 of n # 0 moved into the exponents a and b
RECURSIVE Strip(_, _, _)
Strip(n, a, b) ==
    IF n % 2 = 0 THEN Strip(n \div 2, a + 1, b)
    ELSE IF n % 5 = 0 THEN Strip(n \div 5, a, b + 1)
    ELSE <<n, a, b>>

\* sn / sd for two stripped integers, in lowest terms
Lowest(sn, sd, g) ==
    <<sn[1] \div g, sd[1] \div g, sn[2] - sd[2], sn[3] - sd[3]>>
Reduce(sn, sd) == Lowest(sn, sd, GCD(IAbs(sn[1]), sd[1]))

\* the canonical form of (n / d) * 2^a * 5^b, d > 0
Make(n, d, a, b) ==
    IF n = 0 THEN <<0, 1, 0, 0>> ELSE Reduce(Strip(n, a, b), Strip(d, 0, 0))

\* the canonical form of (n / d) * 10^e, d > 0
Norm(n, d, e) == Make(n, d, e, e)

Q(n, d) == Norm(n, d, 0)
Zero == Q(0, 1)
One == Q(1, 1)

RSign(a) == IF a[1] > 0 THEN 1 ELSE IF a[1] < 0 THEN 0 - 1 ELSE 0
RNeg(a) == <<0 - a[1], a[2], a[3], a[4]>>
RAbs(a) == <<IAbs(a[1]), a[2], a[3], a[4]>>
MulBy(a, b, g1, g2) ==
    <<(a[1] \div g1) * (b[1] \div g2), (a[2] \div g2) * (b[2] \div g1),
      a[3] + b[3], a[4] + b[4]>>
RMul(a, b) ==
    IF a[1] = 0 \/ b[1] = 0 THEN Zero
    ELSE MulBy(a, b, GCD(IAbs(a[1]), b[2]), GCD(IAbs(b[1]), a[2]))
RInv(a) == IF a[1] > 0 THEN <<a[2], a[1], 0 - a[3], 0 - a[4]>>
                       ELSE <<0 - a[2], 0 - a[1], 0 - a[3], 0 - a[4]>>
RDiv(a, b) == RMul(a, RInv(b))
AddAt(a, b, e2, e5, g) ==
    Make(Pow(Pow(a[1], 2, a[3] - e2), 5, a[4] - e5) * (b[2] \div g)
           + Pow(Pow(b[1], 2, b[3] - e2), 5, b[4] - e5) * (a[2] \div g),
         (a[2] \div g) * b[2], e2, e5)
RAdd(a, b) ==
    IF a[1] = 0 THEN b
    ELSE IF b[1] = 0 THEN a
    ELSE AddAt(a, b, IMin(a[3], b[3]), IMin(a[4], b[4]), GCD(a[2], b[2]))
RSub(a, b) == RAdd(a, RNeg(b))

\* min(u * base^k, 2^30), without leaving the integers of the model checker
Cap == 2^30
RECURSIVE CapPow(_, _, _)
CapPow(u, base, k) ==
    IF k = 0 THEN IMin(u, Cap)
    ELSE IF u > Cap \div base THEN Cap
    ELSE CapPow(u * base, base, k - 1)

\* the two sides of r > 1, r > 0: numerator and denominator with the powers
\* of 2 and 5 multiplied in, each capped at 2^30
Above(r) == CapPow(CapPow(r[1], 2, IMax(r[3], 0)), 5, IMax(r[4], 0))
Below(r) == CapPow(CapPow(r[2], 2, IMax(0 - r[3], 0)), 5, IMax(0 - r[4], 0))

\* r > 1 for r > 0: decided on the capped sides unless both reach the cap
Exceeds(r, up, dn) ==
    IF up < Cap \/ dn < Cap THEN up > dn
    ELSE Pow(Pow(r[1], 2, IMax(r[3], 0)), 5, IMax(r[4], 0))
           > Pow(Pow(r[2], 2, IMax(0 - r[3], 0)), 5, IMax(0 - r[4], 0))
GtOne(r) == Exceeds(r, Above(r), Below(r))

\* a < b for a, b > 0
PosLt(a, b) == GtOne(RDiv(b, a))
RLt(a, b) ==
    IF RSign(a) # RSign(b) THEN RSign(a) < RSign(b)
    ELSE IF RSign(a) = 0 THEN FALSE
    ELSE IF RSign(a) > 0 THEN PosLt(a, b)
    ELSE PosLt(RNeg(b), RNeg(a))
RLe(a, b) == ~RLt(b, a)
RMax(a, b) == IF RLt(a, b) THEN b ELSE a
RMin(a, b) == IF RLt(b, a) THEN b ELSE a

----------------------------------------------------------------------------
(* Program constants *)

\* the step-size floor of _single_tensor_sophiag: max(1e-3, _rms(param.data))
FloorBase == Norm(1, 1, 0 - 3)
\* the floor of the rms, og and rmsd kernels: max(1e-5, _rms(param.data))
FloorRms == Norm(1, 1, 0 - 5)
\* the epsilon of the ratio's denominator: rho * bs * hess + 1e-15
Eps == Norm(1, 1, 0 - 15)
\* the magnitude from which a float32 sum x + 1e-15 rounds to x (1e-7 > 2^-26)
Absorb == Norm(1, 1, 0 - 7)
\* the fixed decay of the auxiliary momentum of _single_tensor_sophiag_rmsd
FastBeta == Norm(95, 1, 0 - 2)
FastAlpha == Norm(5, 1, 0 - 2)

----------------------------------------------------------------------------
(* The shape of the model *)

Variants == {"G", "RMS", "OG", "RMSD"}

\* param_groups: the parameters of each group, in the order of group["params"]
Groups == << <<1, 2>>, <<3>> >>
Params == {1, 2, 3}

\* the number of update_hessian and step calls of one run
MaxCalls == 2

\* the update_hessian calls of a run on one constant gradient
MaxRepeat == 8

\* the constructor's arguments / a group's options
Config(lr, b1, b2, rho, wd, mx, cap) ==
    [lr |-> lr, beta1 |-> b1, beta2 |-> b2, rho |-> rho, weight_decay |-> wd,
     maximize |-> mx, capturable |-> cap]

\* p.grad: None, a sparse tensor, or a dense tensor
NoGrad == [kind |-> "none", val |-> Zero]
SparseGrad == [kind |-> "sparse", val |-> Zero]
Dense(v) == [kind |-> "dense", val |-> v]

\* the dense gradients a backward pass may leave on the three parameters
GradBatches == { <<One, Q(0 - 2, 1), Zero>>, <<Q(0 - 2, 1), Zero, One>> }

\* which parameters get no gradient, a sparse one or a dense one: any mix of
\* none and dense, and one sparse gradient (enough to end a sweep) among
\* parameters that all have a dense gradient or all have none
GradKinds ==
    { m \in [Params -> {"none", "sparse", "dense"}] :
        \/ \A p \in Params : m[p] # "sparse"
        \/ /\ Cardinality({p \in Params : m[p] = "sparse"}) = 1
           /\ Cardinality({m[p] : p \in Params}) = 2 }

GradOf(m, b) ==
    [p \in Params |->
        CASE m[p] = "dense" -> Dense(b[p])
          [] m[p] = "sparse" -> SparseGrad
          [] OTHER -> NoGrad]

\* the gradients of a backward pass
GradChoices == { GradOf(m, b) : m \in GradKinds, b \in GradBatches }

\* the backward passes of the runs that save and restore: every parameter
\* with a dense gradient, or all but one of them
FullKinds ==
    { m \in [Params -> {"none", "dense"}] :
        Cardinality({p \in Params : m[p] = "none"}) <= 1 }
FullChoices == { GradOf(m, b) : m \in FullKinds, b \in GradBatches }

\* the bs argument of step
BatchSizes == {4}

Keys == {"step", "exp_avg", "hessian", "rms"}

\* state[p]["step"]: a tensor (on the accelerator or not) or a plain number
StepTensor(v, onCuda) == [tensor |-> TRUE, cuda |-> onCuda, val |-> v]
StepNumber(v) == [tensor |-> FALSE, cuda |-> FALSE, val |-> v]

\* self.state[p] of a parameter that has no record: len(state) == 0.  A field
\* that is not in keys holds a placeholder that nothing reads.
NoRec == [keys |-> {}, step |-> StepNumber(Zero), exp_avg |-> Zero,
          hessian |-> Zero, rms |-> Zero]

VARIABLES
    variant,       \* which optimizer class
    defaults,      \* self.defaults
    param_groups,  \* the options of each group of self.param_groups
    cuda,          \* p.device of the parameters is the accelerator
    pc,            \* "new", "config_error", "unpickled" or "ready"
    param,         \* the value of each parameter tensor
    grad,          \* p.grad of each parameter at the last call
    state,         \* self.state
    calls,         \* update_hessian and step calls made
    last,          \* the last call: its name, bs, outcome and the values before it
    hist,          \* per parameter, the step calls that saw a gradient for it
    twin           \* the instance restored from this one's saved state

vars == <<variant, defaults, param_groups, cuda, pc, param, grad, state, calls,
          last, hist, twin>>

----------------------------------------------------------------------------
(* SophiaG.__init__ and the three copies of it *)

\* the checks with the upper end of the betas' range let in
ArgsValidClosed(c) ==
    /\ RLe(Zero, c.lr)
    /\ RLe(Zero, c.beta1) /\ RLe(c.beta1, One)
    /\ RLe(Zero, c.beta2) /\ RLe(c.beta2, One)
    /\ RLe(Zero, c.rho)
    /\ RLe(Zero, c.weight_decay)

\* the five range checks; TRUE when none raises ValueError
ArgsValid(c) ==
    /\ RLe(Zero, c.lr)
    /\ RLe(Zero, c.beta1) /\ RLt(c.beta1, One)
    /\ RLe(Zero, c.beta2) /\ RLt(c.beta2, One)
    /\ RLe(Zero, c.rho)
    /\ RLe(Zero, c.weight_decay)

----------------------------------------------------------------------------
(* State initialization, shared by update_hessian and step *)

\* the record written when len(state) == 0
FreshRec(v, d, onCuda) ==
    [keys |-> IF v = "G" THEN {"step", "exp_avg", "hessian"} ELSE Keys,
     step |-> StepTensor(Zero, IF v = "G" THEN d.capturable /\ onCuda ELSE onCuda),
     exp_avg |-> Zero, hessian |-> Zero, rms |-> Zero]

\* state initialization that starts a record without a hessian over
EnsureStateReset(v, d, onCuda, rec) ==
    IF rec.keys = {} \/ "hessian" \notin rec.keys THEN FreshRec(v, d, onCuda)
    ELSE rec

\* if len(state) == 0: ... ; if "hessian" not in state.keys(): ...
EnsureState(v, d, onCuda, rec) ==
    IF rec.keys = {} THEN FreshRec(v, d, onCuda)
    ELSE IF "hessian" \notin rec.keys
         THEN [rec EXCEPT !.keys = @ \cup {"hessian"}, !.hessian = Zero]
    ELSE rec

----------------------------------------------------------------------------
(* update_hessian *)

\* the average taken of the gradient's magnitude, not of its square
HessianEmaAbs(beta2, h, g) ==
    RAdd(RMul(beta2, h), RMul(RSub(One, beta2), RAbs(g)))

\* the average of the gradient, not of its square
HessianEmaLinear(beta2, h, g) ==
    RAdd(RMul(beta2, h), RMul(RSub(One, beta2), g))

\* the average with its two weights swapped
HessianEmaSwapped(beta2, h, g) ==
    RAdd(RMul(RSub(One, beta2), h), RMul(beta2, RMul(g, g)))

\* state["hessian"].mul_(beta2).addcmul_(p.grad, p.grad, value=1 - beta2)
HessianEma(beta2, h, g) ==
    RAdd(RMul(beta2, h), RMul(RSub(One, beta2), RMul(g, g)))

\* the body with the record made whether or not there is a gradient
HessianParamEager(v, d, onCuda, g, beta2, rec) ==
    LET r == EnsureState(v, d, onCuda, rec)
    IN  IF g.kind = "none" THEN r
        ELSE [r EXCEPT !.hessian = HessianEma(beta2, r.hessian, g.val)]

\* the body of the loop over group["params"] for one parameter
HessianParam(v, d, onCuda, g, beta2, rec) ==
    IF g.kind = "none" THEN rec
    ELSE LET r == EnsureState(v, d, onCuda, rec)
         IN  [r EXCEPT !.hessian = HessianEma(beta2, r.hessian, g.val)]

RECURSIVE GroupOf(_, _)
GroupOf(p, i) ==
    IF \E k \in 1..Len(Groups[i]) : Groups[i][k] = p THEN i ELSE GroupOf(p, i + 1)

\* the whole sweep: self.state after update_hessian
UpdateHessianState(v, d, pg, onCuda, gr, st) ==
    [p \in Params |->
        HessianParam(v, d, onCuda, gr[p], pg[GroupOf(p, 1)].beta2, st[p])]

----------------------------------------------------------------------------
(* The per-tensor kernels *)

\* _rms(tensor) = tensor.norm(2) / numel ** 0.5 of a one-element tensor
Rms(t) == RAbs(t)

\* the sum with an epsilon of 1e-8 in the place of 1e-15
AddEpsCoarse(prod) ==
    IF prod = Zero THEN Norm(1, 1, 0 - 8)
    ELSE IF RLe(Absorb, prod) THEN prod
    ELSE RAdd(prod, Norm(1, 1, 0 - 8))

\* rho * bs * hess + 1e-15 on a float32 tensor: the sum is 1e-15 for a zero
\* product, and the product itself from the magnitude where 1e-15 is below
\* half a unit in its last place
AddEps(prod) ==
    IF prod = Zero THEN Eps
    ELSE IF RLe(Absorb, prod) THEN prod
    ELSE RAdd(prod, Eps)

\* (m.abs() / (rho * bs * hess + 1e-15)).clamp(None, bound)
Ratio(m, rho, bs, hess, bound) ==
    RMin(RDiv(RAbs(m), AddEps(RMul(RMul(rho, Q(bs, 1)), hess))), bound)

\* grads[i] if not maximize else -grads[i]
SignedGrad(c, g) == IF c.maximize THEN RNeg(g) ELSE g

\* the decay taken without the learning rate
DecayNoLr(c, pv) == RMul(pv, RSub(One, c.weight_decay))

\* param.mul_(1 - lr * weight_decay)
Decay(c, pv) == RMul(pv, RSub(One, RMul(c.lr, c.weight_decay)))

\* exp_avg.mul_(beta).add_(grad, alpha=alpha)
Ema(beta, alpha, m, g) == RAdd(RMul(beta, m), RMul(alpha, g))

\* param.addcmul_(m.sign(), ratio, value=step_size_neg)
Addcmul(pv, m, ratio, stepSizeNeg) ==
    RAdd(pv, RMul(stepSizeNeg, RMul(Q(RSign(m), 1), ratio)))

\* the counter advanced twice
IncrTwice(st) == [st EXCEPT !.val = RAdd(RAdd(@, One), One)]

\* step_t += 1
Incr(st) == [st EXCEPT !.val = RAdd(@, One)]

\* assert param.is_cuda and step_t.is_cuda and bs.is_cuda: bs is a tensor on
\* p.device once step has wrapped it, and a plain int (no is_cuda) before
CapturableCheck(onCuda, rec, bsTensor) ==
    IF ~onCuda \/ ~rec.step.cuda THEN "assert"
    ELSE IF ~bsTensor THEN "attr"
    ELSE "ok"

\* What a kernel hands back for one parameter: its value, its record and the
\* error that ended the kernel ("ok" when it ran to its end).
Out(pv, rec, e) == [param |-> pv, rec |-> rec, err |-> e]

\* the three statements every kernel starts with, after the capturable check
Prologue(c, beta1, pv, rec, g) ==
    Out(Decay(c, pv),
        [rec EXCEPT !.step = Incr(@),
                    !.exp_avg = Ema(beta1, RSub(One, beta1), @, SignedGrad(c, g))],
        "ok")

\* the capturable check at the head of an iteration
Check(c, onCuda, rec, bsTensor) ==
    IF c.capturable THEN CapturableCheck(onCuda, rec, bsTensor) ELSE "ok"

\* the base kernel with the step size taken as lr, without the rms of the
\* parameter
FinishGPlainLr(c, bs, a) ==
    IF c.capturable /\ ~RLt(FloorBase, Rms(a.param))
    THEN Out(a.param, a.rec, "attr")
    ELSE Out(Addcmul(a.param, a.rec.exp_avg,
                     Ratio(a.rec.exp_avg, c.rho, bs, a.rec.hessian, One),
                     RNeg(c.lr)),
             a.rec, "ok")

\* _single_tensor_sophiag after the first three statements, which left a:
\* step_size, ratio and addcmul_.  In capturable mode max(1e-3, t) is the
\* float 1e-3 unless t > 1e-3, and a float step_size has no neg().
FinishG(c, bs, a) ==
    IF c.capturable /\ ~RLt(FloorBase, Rms(a.param))
    THEN Out(a.param, a.rec, "attr")
    ELSE Out(Addcmul(a.param, a.rec.exp_avg,
                     Ratio(a.rec.exp_avg, c.rho, bs, a.rec.hessian, One),
                     RNeg(RMul(c.lr, RMax(FloorBase, Rms(a.param))))),
             a.rec, "ok")

\* _single_tensor_sophiag, one iteration of its loop
KernelG(c, bs, bsTensor, onCuda, pv, rec, g) ==
    IF Check(c, onCuda, rec, bsTensor) # "ok"
    THEN Out(pv, rec, Check(c, onCuda, rec, bsTensor))
    ELSE FinishG(c, bs, Prologue(c, c.beta1, pv, rec, g))

\* the kernels with the update multiplied by step_size_rel as well
FinishRelScaled(c, bs, a, m, stepSizeRel, bound) ==
    IF c.capturable THEN Out(a.param, a.rec, "attr")
    ELSE Out(Addcmul(a.param, m, Ratio(m, c.rho, bs, a.rec.hessian, bound),
                     RNeg(RMul(c.lr, stepSizeRel))),
             [a.rec EXCEPT !.rms = stepSizeRel], "ok")

\* the rms, og and rmsd kernels after step_size_rel: step_size_neg is -lr
\* (lr.neg() in capturable mode, which a float lr does not have), rms takes
\* step_size_rel, and m gives the ratio and the sign
FinishRel(c, bs, a, m, stepSizeRel, bound) ==
    IF c.capturable THEN Out(a.param, a.rec, "attr")
    ELSE Out(Addcmul(a.param, m, Ratio(m, c.rho, bs, a.rec.hessian, bound),
                     RNeg(c.lr)),
             [a.rec EXCEPT !.rms = stepSizeRel], "ok")

\* step_size_rel = max(1e-5, _rms(param.data))
StepSizeRel(a) == RMax(FloorRms, Rms(a.param))

FinishRms(c, bs, a) ==
    FinishRel(c, bs, a, a.rec.exp_avg, StepSizeRel(a), StepSizeRel(a))
FinishOg(c, bs, a) ==
    FinishRel(c, bs, a, a.rec.exp_avg, StepSizeRel(a), One)
FinishRmsd(c, bs, a, expAvg1) ==
    FinishRel(c, bs, a, expAvg1, StepSizeRel(a), StepSizeRel(a))

\* _single_tensor_sophiag_rms, one iteration: the clamp's bound is step_size_rel
KernelRms(c, bs, bsTensor, onCuda, pv, rec, g) ==
    IF Check(c, onCuda, rec, bsTensor) # "ok"
    THEN Out(pv, rec, Check(c, onCuda, rec, bsTensor))
    ELSE FinishRms(c, bs, Prologue(c, c.beta1, pv, rec, g))

\* _single_tensor_sophiag_og, one iteration: the clamp's bound is 1
KernelOg(c, bs, bsTensor, onCuda, pv, rec, g) ==
    IF Check(c, onCuda, rec, bsTensor) # "ok"
    THEN Out(pv, rec, Check(c, onCuda, rec, bsTensor))
    ELSE FinishOg(c, bs, Prologue(c, c.beta1, pv, rec, g))

\* _single_tensor_sophiag_rmsd, one iteration: the auxiliary momentum
\* exp_avg_1 gives the sign and the ratio, exp_avg is stored
KernelRmsd(c, bs, bsTensor, onCuda, pv, rec, g) ==
    IF Check(c, onCuda, rec, bsTensor) # "ok"
    THEN Out(pv, rec, Check(c, onCuda, rec, bsTensor))
    ELSE FinishRmsd(c, bs, Prologue(c, c.beta1, pv, rec, g),
                    Ema(FastBeta, FastAlpha, rec.exp_avg, SignedGrad(c, g)))

\* func = ... of sophiag, sophiag_rms, sophiag_og and sophiag_rmsd
KernelOf(v) ==
    CASE v = "G" -> "G"
      [] v = "RMS" -> "RMS"
      [] v = "OG" -> "OG"
      [] v = "RMSD" -> "RMS"

Kernel(k, c, bs, bsTensor, onCuda, pv, rec, g) ==
    CASE k = "G" -> KernelG(c, bs, bsTensor, onCuda, pv, rec, g)
      [] k = "RMS" -> KernelRms(c, bs, bsTensor, onCuda, pv, rec, g)
      [] k = "OG" -> KernelOg(c, bs, bsTensor, onCuda, pv, rec, g)
      [] k = "RMSD" -> KernelRmsd(c, bs, bsTensor, onCuda, pv, rec, g)

----------------------------------------------------------------------------
(* step *)

\* What one step call has done so far: the parameters and records, whether bs
\* has been wrapped into a tensor, the error that ended the call ("ok" while
\* it runs), the parameter it was raised at, the parameters of the group at
\* hand that go to the kernel, and the parameters whose kernel iteration ran
\* to its end.
Sweep0(pa, st) ==
    [param |-> pa, state |-> st, bsTensor |-> FALSE, err |-> "ok", at |-> 0,
     list |-> <<>>, updated |-> {}]

\* exp_avgs.append(state["exp_avg"]) and the appends after it read these keys
ReadKeys(v) == IF v = "G" THEN {"exp_avg", "step", "hessian"} ELSE Keys

\* the appends of the loop's body, on the record rec that state
\* initialization left: a KeyError when a key they read is missing
Appends(v, d, p, w, rec) ==
    IF ~(ReadKeys(v) \subseteq rec.keys)
    THEN [w EXCEPT !.state[p] = rec, !.err = "key", !.at = p]
    ELSE [w EXCEPT !.state[p] = rec, !.list = Append(@, p),
                   !.bsTensor = @ \/ d.capturable]

\* the body with the record made before the gradient is looked at
CollectParamLate(v, d, onCuda, gr, p, w) ==
    IF gr[p].kind = "none" THEN w
    ELSE IF gr[p].kind = "sparse"
    THEN [w EXCEPT !.state[p] = EnsureState(v, d, onCuda, w.state[p]),
                   !.err = "sparse", !.at = p]
    ELSE Appends(v, d, p, w, EnsureState(v, d, onCuda, w.state[p]))

\* the body of "for p in group['params']" of step, for one parameter
CollectParam(v, d, onCuda, gr, p, w) ==
    IF gr[p].kind = "none" THEN w
    ELSE IF gr[p].kind = "sparse" THEN [w EXCEPT !.err = "sparse", !.at = p]
    ELSE Appends(v, d, p, w, EnsureState(v, d, onCuda, w.state[p]))

RECURSIVE Collect(_, _, _, _, _, _, _)
Collect(v, d, onCuda, gr, ps, i, w) ==
    IF i > Len(ps) \/ w.err # "ok" THEN w
    ELSE Collect(v, d, onCuda, gr, ps, i + 1, CollectParam(v, d, onCuda, gr, ps[i], w))

\* what one iteration o of the kernel leaves of parameter p: an iteration
\* that raises ends the call
Applied(w, p, o) ==
    IF o.err # "ok"
    THEN [w EXCEPT !.param[p] = o.param, !.state[p] = o.rec, !.err = o.err, !.at = p]
    ELSE [w EXCEPT !.param[p] = o.param, !.state[p] = o.rec,
                   !.updated = @ \cup {p}]

\* "for i, param in enumerate(params)" of the kernel
RECURSIVE RunKernel(_, _, _, _, _, _, _)
RunKernel(k, c, bs, onCuda, gr, i, w) ==
    IF i > Len(w.list) \/ w.err # "ok" THEN w
    ELSE RunKernel(k, c, bs, onCuda, gr, i + 1,
                   Applied(w, w.list[i],
                           Kernel(k, c, bs, w.bsTensor, onCuda, w.param[w.list[i]],
                                  w.state[w.list[i]], gr[w.list[i]].val)))

\* sophiag and its copies: the check of state_steps, then the kernel
Dispatch(v, c, bs, onCuda, gr, w) ==
    IF w.err # "ok" THEN w   \* the loop over the group's parameters raised
    ELSE IF \E i \in 1..Len(w.list) : ~w.state[w.list[i]].step.tensor
    THEN [w EXCEPT !.err = "api"]
    ELSE RunKernel(KernelOf(v), c, bs, onCuda, gr, 1, w)

\* one iteration of "for group in self.param_groups" of step
StepGroup(v, d, c, onCuda, gr, bs, ps, w) ==
    Dispatch(v, c, bs, onCuda, gr,
             Collect(v, d, onCuda, gr, ps, 1, [w EXCEPT !.list = <<>>]))

RECURSIVE StepGroups(_, _, _, _, _, _, _, _)
StepGroups(v, d, pg, onCuda, gr, bs, i, w) ==
    IF i > Len(Groups) \/ w.err # "ok" THEN w
    ELSE StepGroups(v, d, pg, onCuda, gr, bs, i + 1,
                    StepGroup(v, d, pg[i], onCuda, gr, bs, Groups[i], w))

\* a sweep that looks for a sparse gradient before it touches anything
StepSweepAtomic(v, d, pg, onCuda, gr, bs, pa, st) ==
    IF \E p \in Params : gr[p].kind = "sparse"
    THEN [Sweep0(pa, st) EXCEPT
             !.err = "sparse",
             !.at = CHOOSE p \in Params :
                       /\ gr[p].kind = "sparse"
                       /\ \A q \in Params : gr[q].kind = "sparse" => p <= q]
    ELSE StepGroups(v, d, pg, onCuda, gr, bs, 1, Sweep0(pa, st))

\* step(bs=bs) with closure None: the whole sweep
StepSweep(v, d, pg, onCuda, gr, bs, pa, st) ==
    StepGroups(v, d, pg, onCuda, gr, bs, 1, Sweep0(pa, st))

----------------------------------------------------------------------------
(* __setstate__ and the saved state *)

\* the records of self.state, in the order of state.values()
RECURSIVE StateValues(_, _)
StateValues(st, p) ==
    IF p \notin Params THEN <<>>
    ELSE IF st[p].keys = {} THEN StateValues(st, p + 1)
    ELSE <<p>> \o StateValues(st, p + 1)

\* s["step"] = torch.tensor(float(s["step"])): a tensor that is not on the
\* accelerator, holding the number
ToTensor(stp) == StepTensor(stp.val, FALSE)

\* __setstate__ converting the steps whatever they are
SetStateAlways(st) ==
    [p \in Params |->
        IF st[p].keys = {} THEN st[p] ELSE [st[p] EXCEPT !.step = ToTensor(@)]]

\* __setstate__: the steps are converted unless the first record's is a tensor
StepIsTensor(st, vals) == Len(vals) # 0 /\ st[vals[1]].step.tensor
SetState(st) ==
    IF StepIsTensor(st, StateValues(st, 1)) THEN st
    ELSE [p \in Params |->
            IF st[p].keys = {} THEN st[p] ELSE [st[p] EXCEPT !.step = ToTensor(@)]]

----------------------------------------------------------------------------
(* The runs *)

Half == Q(1, 2)
Quarter == Q(1, 4)

\* the constructor's arguments of the runs, and the accelerator or not
CfgPlain == Config(Half, Half, Half, Quarter, Half, FALSE, FALSE)
CfgEdge == Config(Quarter, Zero, Q(3, 4), Zero, Zero, TRUE, FALSE)
CfgGraph == Config(Half, Half, Half, Quarter, Half, FALSE, TRUE)

\* the second group overrides beta2, maximize and beta1
Setups ==
    { [d |-> CfgPlain, g2 |-> [CfgPlain EXCEPT !.beta2 = Q(3, 4), !.maximize = TRUE],
       cuda |-> FALSE],
      [d |-> CfgEdge, g2 |-> [CfgEdge EXCEPT !.beta1 = Half, !.rho = Quarter],
       cuda |-> FALSE],
      [d |-> CfgGraph, g2 |-> [CfgGraph EXCEPT !.capturable = FALSE],
       cuda |-> TRUE] }

\* the parameter tensors handed to the constructor: one above both step-size
\* floors, one between them, one below both
Param0 == <<One, Norm(0 - 5, 1, 0 - 4), Norm(2, 1, 0 - 6)>>

NoState == [p \in Params |-> NoRec]
NoCall == [op |-> "none", bs |-> 0, err |-> "ok", at |-> 0, updated |-> {},
           param |-> Param0, state |-> NoState]
NoHist == [n |-> [p \in Params |-> 0], failed |-> FALSE]
NoTwin == [on |-> FALSE, k |-> 0, param |-> Param0, state |-> NoState]

\* the arguments tried on the constructor
LrArgs == {Q(0 - 1, 2), Zero, Half}
BetaArgs == {Q(0 - 1, 2), Zero, Half, One}
RhoArgs == {Q(0 - 1, 4), Zero, Quarter}
DecayArgs == {Q(0 - 1, 2), Zero, Half}
CtorArgs ==
    { Config(lr, b1, b2, rho, wd, FALSE, FALSE) :
        lr \in LrArgs, b1 \in BetaArgs, b2 \in BetaArgs, rho \in RhoArgs,
        wd \in DecayArgs }

\* everything but the optimizer's class, options and lifecycle
Blank ==
    /\ param = Param0
    /\ grad = [p \in Params |-> NoGrad]
    /\ state = NoState
    /\ calls = 0
    /\ last = NoCall
    /\ hist = NoHist
    /\ twin = NoTwin

\* before the constructor runs
InitNew ==
    /\ variant \in Variants
    /\ defaults \in CtorArgs
    /\ param_groups = <<>>
    /\ cuda = FALSE
    /\ pc = "new"
    /\ Blank

\* __init__: the range checks, then Optimizer.__init__ makes every group
\* from the defaults
Construct ==
    /\ pc = "new"
    /\ IF ArgsValid(defaults)
       THEN /\ pc' = "ready"
            /\ param_groups' = [i \in 1..Len(Groups) |-> defaults]
       ELSE /\ pc' = "config_error"
            /\ UNCHANGED param_groups
    /\ UNCHANGED <<variant, defaults, cuda, param, grad, state, calls, last, hist, twin>>

\* a constructed optimizer that has made no call
Init ==
    /\ variant \in Variants
    /\ \E s \in Setups :
          /\ ArgsValid(s.d)
          /\ defaults = s.d
          /\ param_groups = <<s.d, s.g2>>
          /\ cuda = s.cuda
    /\ pc = "ready"
    /\ Blank

\* update_hessian().  What addcmul_ does with a sparse p.grad is torch's to
\* say: the call is made with dense gradients only.
HessianCall(gr) ==
    /\ pc = "ready"
    /\ \A p \in Params : gr[p].kind # "sparse"
    /\ grad' = gr
    /\ state' = UpdateHessianState(variant, defaults, param_groups, cuda, gr, state)
    /\ calls' = calls + 1
    /\ last' = [op |-> "update_hessian", bs |-> 0, err |-> "ok", at |-> 0,
                updated |-> {}, param |-> param, state |-> state]
    /\ twin' = IF twin.on
               THEN [twin EXCEPT !.state = UpdateHessianState(variant, defaults,
                                      param_groups, cuda, gr, twin.state)]
               ELSE twin
    /\ UNCHANGED <<variant, defaults, param_groups, cuda, pc, param, hist>>

UpdateHessian(gr) == calls < MaxCalls /\ HessianCall(gr)

\* update_hessian() called again and again while the gradients stay what the
\* first call found
RepeatHessian(gr) ==
    /\ calls < MaxRepeat
    /\ calls > 0 => gr = grad
    /\ HessianCall(gr)

\* what the sweep w of a step call leaves behind
StepDone(gr, bs, w) ==
    /\ param' = w.param
    /\ state' = w.state
    /\ last' = [op |-> "step", bs |-> bs, err |-> w.err, at |-> w.at,
                updated |-> w.updated, param |-> param, state |-> state]
    /\ hist' = [n |-> [p \in Params |->
                          IF gr[p].kind = "none" THEN hist.n[p] ELSE hist.n[p] + 1],
                failed |-> hist.failed \/ w.err # "ok"]

TwinOf(k, t) == [on |-> TRUE, k |-> k, param |-> t.param, state |-> t.state]

\* step(bs=bs)
Step(gr, bs) ==
    /\ pc = "ready"
    /\ calls < MaxCalls
    /\ StepDone(gr, bs,
                StepSweep(variant, defaults, param_groups, cuda, gr, bs, param, state))
    /\ twin' = IF twin.on
               THEN TwinOf(twin.k,
                           StepSweep(variant, defaults, param_groups, cuda, gr, bs,
                                     twin.param, twin.state))
               ELSE twin
    /\ grad' = gr
    /\ calls' = calls + 1
    /\ UNCHANGED <<variant, defaults, param_groups, cuda, pc>>

\* the saved records go as they are into a fresh instance over copies of the
\* parameters, and __setstate__ runs on them
SaveRestore ==
    /\ pc = "ready"
    /\ ~twin.on
    /\ twin' = [on |-> TRUE, k |-> calls, param |-> param, state |-> SetState(state)]
    /\ UNCHANGED <<variant, defaults, param_groups, cuda, pc, param, grad, state,
                   calls, last, hist>>

Next ==
    \/ \E gr \in GradChoices : UpdateHessian(gr)
    \/ \E gr \in GradChoices, bs \in BatchSizes : Step(gr, bs)

Spec == Init /\ [][Next]_vars

\* the same runs, with the state saved and restored at any point of them
NextTwin ==
    \/ \E gr \in FullChoices : UpdateHessian(gr)
    \/ \E gr \in FullChoices, bs \in BatchSizes : Step(gr, bs)
    \/ SaveRestore

SpecTwin == Init /\ [][NextTwin]_vars

\* the records of a restored state mapping: the step a tensor or a plain
\* number, the hessian there or not (a record saved before the buffer existed)
SavedRec(v, asTensor, withHessian) ==
    [keys |-> (IF v = "G" THEN {"step", "exp_avg", "hessian"} ELSE Keys)
                 \ (IF withHessian THEN {} ELSE {"hessian"}),
     step |-> IF asTensor THEN StepTensor(Q(3, 1), FALSE) ELSE StepNumber(Q(3, 1)),
     exp_avg |-> Quarter,
     hessian |-> IF withHessian THEN Half ELSE Zero,
     rms |-> IF v = "G" THEN Zero ELSE One]

SavedRecs(v) ==
    {NoRec} \cup { SavedRec(v, t, h) : t \in BOOLEAN, h \in BOOLEAN }

\* an instance whose __dict__ has just been replaced by a restored one, before
\* __setstate__ has looked at it; one call is followed after the restore
InitSaved ==
    /\ variant \in Variants
    /\ defaults = CfgPlain
    /\ param_groups = <<CfgPlain, [CfgPlain EXCEPT !.beta2 = Q(3, 4)]>>
    /\ cuda = FALSE
    /\ pc = "unpickled"
    /\ param = Param0
    /\ grad = [p \in Params |-> NoGrad]
    /\ state \in [Params -> SavedRecs(variant)]
    /\ calls = MaxCalls - 1
    /\ last = NoCall
    /\ hist = NoHist
    /\ twin = NoTwin

\* __setstate__(state).  The groups of the model always hold maximize and
\* capturable, so the two setdefault calls change nothing.
SetStateCall ==
    /\ pc = "unpickled"
    /\ pc' = "ready"
    /\ state' = SetState(state)
    /\ last' = [op |-> "setstate", bs |-> 0, err |-> "ok", at |-> 0, updated |-> {},
                param |-> param, state |-> state]
    /\ UNCHANGED <<variant, defaults, param_groups, cuda, param, grad, calls, hist,
                   twin>>

NextSaved ==
    \/ SetStateCall
    \/ \E gr \in GradChoices : UpdateHessian(gr)
    \/ \E gr \in GradChoices, bs \in BatchSizes : Step(gr, bs)

SpecSaved == InitSaved /\ [][NextSaved]_vars

\* backward passes that leave gradients around the epsilon of the ratio's
\* denominator on the first and the third parameter
TinyBatches ==
    { <<Norm(1, 1, 0 - 16), One, Zero>>,
      <<Norm(0 - 2, 1, 0 - 16), Q(0 - 2, 1), Norm(1, 1, 0 - 16)>> }
TinyChoices == { GradOf(m, b) : m \in FullKinds, b \in TinyBatches }

\* step calls alone on such gradients: no hessian is ever estimated
NextTiny == \E gr \in TinyChoices, bs \in BatchSizes : Step(gr, bs)

SpecTiny == Init /\ [][NextTiny]_vars

\* update_hessian alone, over and over on a constant gradient
NextEma == \E gr \in FullChoices : RepeatHessian(gr)

\* the caller keeps calling: while calls remain, one more is made
OneMoreCall == calls < MaxRepeat /\ calls' = calls + 1

SpecEma == Init /\ [][NextEma]_vars /\ WF_calls(OneMoreCall)

\* construction alone, over every combination of the arguments tried
NextNew == Construct

SpecNew == InitNew /\ [][NextNew]_vars

----------------------------------------------------------------------------
(* The properties *)

\* the step counter of a record; a parameter without a record has made no step
StepVal(rec) == IF "step" \in rec.keys THEN rec.step.val ELSE Zero

\* the options of the group that holds p
OptionsOf(p) == param_groups[GroupOf(p, 1)]

OutOfRange(c) ==
    \/ RLt(c.lr, Zero)
    \/ RLt(c.beta1, Zero) \/ RLe(One, c.beta1)
    \/ RLt(c.beta2, Zero) \/ RLe(One, c.beta2)
    \/ RLt(c.rho, Zero)
    \/ RLt(c.weight_decay, Zero)

\* C2: constructing any variant raises a configuration error and makes no
\* optimizer exactly when lr < 0, a beta is outside [0, 1), rho < 0 or
\* weight_decay < 0; the boundary values lr = 0, beta = 0, rho = 0 and
\* weight_decay = 0 are accepted.
C2_Validation ==
    /\ pc = "config_error" => OutOfRange(defaults) /\ param_groups = <<>>
    /\ pc = "ready" =>
          /\ ~OutOfRange(defaults)
          /\ param_groups = [i \in 1..Len(Groups) |-> defaults]

\* a beta of exactly 1 is turned down while everything else sits on the
\* accepted boundary
C2_Reached ==
    /\ pc = "config_error"
    /\ defaults.beta1 = One
    /\ defaults.lr = Zero /\ defaults.beta2 = Zero
    /\ defaults.rho = Zero /\ defaults.weight_decay = Zero

\* C3: update_hessian sets, for each parameter with a gradient g, hessian to
\* beta2 * hessian + (1 - beta2) * g * g with the beta2 of the parameter's
\* group, and changes neither the parameter nor its momentum nor its step
\* counter; g enters by its square only, so its sign and maximize play no part.
C3_HessianUpdate ==
    last.op = "update_hessian" =>
        \A p \in Params :
            grad[p].kind = "dense" =>
                /\ "hessian" \in state[p].keys
                /\ state[p].hessian =
                       RAdd(RMul(OptionsOf(p).beta2, last.state[p].hessian),
                            RMul(RSub(One, OptionsOf(p).beta2),
                                 RMul(grad[p].val, grad[p].val)))
                /\ param[p] = last.param[p]
                /\ state[p].exp_avg = last.state[p].exp_avg
                /\ StepVal(state[p]) = StepVal(last.state[p])

\* a second update_hessian folds a nonzero gradient into a nonzero hessian, in
\* the group whose beta2 is not the default one
C3_Reached ==
    /\ last.op = "update_hessian"
    /\ \E p \in Params :
          /\ grad[p].kind = "dense" /\ grad[p].val # Zero
          /\ last.state[p].hessian # Zero
          /\ OptionsOf(p).beta2 # defaults.beta2

\* the denominator and the clamped ratio of the update, as the kernels'
\* float32 arithmetic gives them
Clamped(c, bs, m, h, bound) ==
    RMin(RDiv(RAbs(m), AddEps(RMul(RMul(c.rho, Q(bs, 1)), h))), bound)

\* the gradient as the kernels take it, the parameter after weight decay and
\* the momentum after its update
Signed(c, g) == IF c.maximize THEN RNeg(g) ELSE g
Decayed(c, pv) == RMul(pv, RSub(One, RMul(c.lr, c.weight_decay)))
Momentum(c, m, g) == RAdd(RMul(c.beta1, m), RMul(RSub(One, c.beta1), Signed(c, g)))

\* param - scale * sign(m) * min(|m| / (rho * bs * h + 1e-15), bound)
Moved(c, bs, pv, m, h, scale, bound) ==
    RSub(pv, RMul(scale, RMul(Q(RSign(m), 1), Clamped(c, bs, m, h, bound))))

\* the base variant's step of one parameter, from the values before the call
BaseStep(c, bs, pv, m, h, g) ==
    Moved(c, bs, Decayed(c, pv), Momentum(c, m, g), h,
          RMul(c.lr, RMax(Norm(1, 1, 0 - 3), RAbs(Decayed(c, pv)))), One)

\* C4: in the base variant, in a group that is not capturable, step with batch
\* size bs does for each parameter it updates, in this order, g <- -grad if
\* maximize else grad; param <- param * (1 - lr * weight_decay);
\* momentum <- beta1 * momentum + (1 - beta1) * g;
\* step_size <- lr * max(1e-3, rms(param)) on the decayed parameter;
\* ratio <- min(|momentum| / (rho * bs * hessian + 1e-15), 1);
\* param <- param - step_size * sign(momentum) * ratio; hessian is unchanged.
C4_BaseStep ==
    variant = "G" /\ last.op = "step" =>
        \A p \in last.updated :
            ~OptionsOf(p).capturable =>
                /\ param[p] = BaseStep(OptionsOf(p), last.bs, last.param[p],
                                       last.state[p].exp_avg, last.state[p].hessian,
                                       grad[p].val)
                /\ state[p].exp_avg = Momentum(OptionsOf(p), last.state[p].exp_avg,
                                               grad[p].val)
                /\ state[p].hessian = last.state[p].hessian

\* a base step that moves a parameter by less than its whole step size: the
\* momentum and the hessian are there and the ratio stays under the clamp
C4_Reached ==
    /\ variant = "G" /\ last.op = "step"
    /\ \E p \in last.updated :
          /\ ~OptionsOf(p).capturable
          /\ state[p].hessian # Zero
          /\ state[p].exp_avg # Zero
          /\ Clamped(OptionsOf(p), last.bs, state[p].exp_avg, state[p].hessian, One)
                 # One
          /\ OptionsOf(p).weight_decay # Zero

\* step_size_rel of the three other variants, on the decayed parameter
RelOf(c, pv) == RMax(Norm(1, 1, 0 - 5), RAbs(Decayed(c, pv)))

\* the clamp's upper bound in each of them
BoundOf(v, c, pv) == IF v = "OG" THEN One ELSE RelOf(c, pv)

\* C5 as the specification words it: in the RMS, OG and RMSD variants the
\* update is scaled by step_size = lr * max(1e-5, rms(param)).
C5_AsStated ==
    variant # "G" /\ last.op = "step" =>
        \A p \in last.updated :
            param[p] = Moved(OptionsOf(p), last.bs, Decayed(OptionsOf(p), last.param[p]),
                             state[p].exp_avg, last.state[p].hessian,
                             RMul(OptionsOf(p).lr, RelOf(OptionsOf(p), last.param[p])),
                             BoundOf(variant, OptionsOf(p), last.param[p]))

\* C5: in the RMS, OG and RMSD variants the update of a parameter is scaled
\* by lr alone: param <- param * (1 - lr * weight_decay)
\*   - lr * sign(momentum) * min(|momentum| / (rho * bs * hessian + 1e-15), bound).
\* step_size_rel = max(1e-5, rms(param)), taken after weight decay, is stored
\* in the rms buffer and is the bound of the clamp in RMS and RMSD (the bound
\* is 1 in OG); the floor of the relative step size is 1e-5, not 1e-3.
C5_RelativeStep ==
    variant # "G" /\ last.op = "step" =>
        \A p \in last.updated :
            /\ param[p] = Moved(OptionsOf(p), last.bs,
                                Decayed(OptionsOf(p), last.param[p]),
                                state[p].exp_avg, last.state[p].hessian,
                                OptionsOf(p).lr,
                                BoundOf(variant, OptionsOf(p), last.param[p]))
            /\ state[p].rms = RelOf(OptionsOf(p), last.param[p])
            /\ state[p].exp_avg = Momentum(OptionsOf(p), last.state[p].exp_avg,
                                           grad[p].val)

\* a step of one of the three variants on a parameter whose relative step
\* size is not 1, with a momentum that moves it
C5_Reached ==
    /\ variant # "G" /\ last.op = "step"
    /\ \E p \in last.updated :
          /\ state[p].exp_avg # Zero
          /\ state[p].rms # One
          /\ OptionsOf(p).lr # Zero
          /\ param[p] # Decayed(OptionsOf(p), last.param[p])

\* the fast auxiliary momentum of the dual-EMA formula
FastMomentum(c, m, g) ==
    RAdd(RMul(Norm(95, 1, 0 - 2), m), RMul(Norm(5, 1, 0 - 2), Signed(c, g)))

\* C6: a step of the RMSD variant computes the fast momentum
\* 0.95 * momentum_old + 0.05 * g and takes the sign and the numerator of the
\* ratio from it, while the stored momentum gets the slow average
\* beta1 * momentum_old + (1 - beta1) * g.
C6_DualEma ==
    variant = "RMSD" /\ last.op = "step" =>
        \A p \in last.updated :
            /\ state[p].exp_avg = Momentum(OptionsOf(p), last.state[p].exp_avg,
                                           grad[p].val)
            /\ param[p] = Moved(OptionsOf(p), last.bs,
                                Decayed(OptionsOf(p), last.param[p]),
                                FastMomentum(OptionsOf(p), last.state[p].exp_avg,
                                             grad[p].val),
                                last.state[p].hessian, OptionsOf(p).lr,
                                RelOf(OptionsOf(p), last.param[p]))

\* p comes before q in the sweep of step over the groups
IndexIn(ps, p) == CHOOSE k \in 1..Len(ps) : ps[k] = p
Earlier(p, q) ==
    \/ GroupOf(p, 1) < GroupOf(q, 1)
    \/ /\ GroupOf(p, 1) = GroupOf(q, 1)
       /\ IndexIn(Groups[GroupOf(p, 1)], p) < IndexIn(Groups[GroupOf(q, 1)], q)

\* C7: when step, in any variant, reaches a parameter whose gradient is
\* sparse it raises at once: the call does not return normally, the error is
\* raised at the first sparse parameter of the sweep unless the call has
\* failed before, and that parameter's value and record (step counter,
\* momentum, hessian) are as before the call, no record having been made.
C7_SparseRaises ==
    last.op = "step" =>
        /\ (\E p \in Params : grad[p].kind = "sparse") => last.err # "ok"
        /\ last.err = "sparse" =>
              /\ grad[last.at].kind = "sparse"
              /\ \A q \in Params : Earlier(q, last.at) => grad[q].kind # "sparse"
              /\ param[last.at] = last.param[last.at]
              /\ state[last.at] = last.state[last.at]

\* step has raised on a sparse gradient at a parameter without a record,
\* after it went past a parameter with a dense gradient
C7_Reached ==
    /\ last.op = "step" /\ last.err = "sparse"
    /\ state[last.at].keys = {}
    /\ \E q \in Params : Earlier(q, last.at) /\ grad[q].kind = "dense"

\* the gradients of the last call with the sparse ones taken away
DenseOnly == [p \in Params |-> IF grad[p].kind = "sparse" THEN NoGrad ELSE grad[p]]

\* what the last call would have left had no gradient been sparse
Unfailed ==
    StepSweep(variant, defaults, param_groups, cuda, DenseOnly, last.bs,
              last.param, last.state)

\* C8 as the specification words it: every parameter with a dense gradient
\* that comes earlier in the sweep than the sparse one, in the same group or
\* in an earlier one, has its counter advanced by 1.
C8_AsStated ==
    last.op = "step" /\ last.err = "sparse" =>
        \A p \in Params :
            Earlier(p, last.at) /\ grad[p].kind = "dense" =>
                StepVal(state[p]) = RAdd(StepVal(last.state[p]), One)

\* C8: when a step call fails on a sparse gradient, every parameter with a
\* dense gradient in an EARLIER GROUP keeps its full update from this call
\* (counter advanced by 1, weight decay, momentum update and signed update
\* applied, as in a call without the sparse gradient); a parameter of the SAME
\* group as the sparse one is not updated at all, whether it comes before or
\* after it: its value, counter, momentum and hessian are as before the call,
\* and at most a record of zeros has been made for it.  The sweep is not
\* all-or-nothing, but it is all-or-nothing within a group.
C8_EarlierGroups ==
    last.op = "step" /\ last.err = "sparse" =>
        \A p \in Params :
            /\ GroupOf(p, 1) < GroupOf(last.at, 1) /\ grad[p].kind = "dense" =>
                  /\ StepVal(state[p]) = RAdd(StepVal(last.state[p]), One)
                  /\ state[p].exp_avg = Momentum(OptionsOf(p), last.state[p].exp_avg,
                                                 grad[p].val)
                  /\ param[p] = Unfailed.param[p]
                  /\ state[p] = Unfailed.state[p]
            /\ GroupOf(p, 1) = GroupOf(last.at, 1) =>
                  /\ param[p] = last.param[p]
                  /\ StepVal(state[p]) = StepVal(last.state[p])
                  /\ state[p].exp_avg = last.state[p].exp_avg
                  /\ state[p].hessian = last.state[p].hessian
                  /\ state[p] # last.state[p] =>
                        /\ last.state[p].keys = {}
                        /\ Earlier(p, last.at) /\ grad[p].kind = "dense"

\* a call has failed in the second group after it moved a parameter of the
\* first
C8_Reached ==
    /\ last.op = "step" /\ last.err = "sparse"
    /\ \E p \in last.updated :
          /\ GroupOf(p, 1) < GroupOf(last.at, 1)
          /\ param[p] # last.param[p]
          /\ state[p].exp_avg # Zero

C10_AllTensor ==
    last.op = "setstate" =>
        \A p \in Params :
            state[p].keys # {} =>
                /\ state[p].step.tensor
                /\ state[p].step.val = last.state[p].step.val

\* C11: when the first step call on a parameter (its counter is 0, whatever
\* update_hessian has put into its hessian) sees a zero gradient for it, the
\* parameter changes through the weight decay only: it becomes
\* param_before * (1 - lr * weight_decay), and the momentum stays zero, in
\* every variant.
C11_ZeroGradient ==
    last.op = "step" =>
        \A p \in last.updated :
            StepVal(last.state[p]) = Zero /\ grad[p].val = Zero =>
                /\ param[p] = Decayed(OptionsOf(p), last.param[p])
                /\ state[p].exp_avg = Zero
                /\ StepVal(state[p]) = One

\* a first step with a zero gradient on a parameter whose hessian
\* update_hessian has already made nonzero, in a group that decays
C11_Reached ==
    /\ last.op = "step"
    /\ \E p \in last.updated :
          /\ StepVal(last.state[p]) = Zero /\ grad[p].val = Zero
          /\ last.state[p].hessian # Zero
          /\ param[p] # last.param[p]

\* the factor of sign(momentum) * ratio in the update of each variant, and the
\* upper bound of its clamp
ScaleOf(v, c, pv) ==
    IF v = "G" THEN RMul(c.lr, RMax(Norm(1, 1, 0 - 3), RAbs(Decayed(c, pv))))
    ELSE c.lr
UpperOf(v, c, pv) == IF v \in {"G", "OG"} THEN One ELSE RelOf(c, pv)

\* the ratio over a zero hessian: the denominator is the epsilon alone
EpsRatio(m, bound) == RMin(RDiv(RAbs(m), Norm(1, 1, 0 - 15)), bound)

\* decayed - scale * sign(m) * ratio
Shifted(pv, scale, m, ratio) ==
    RSub(pv, RMul(scale, RMul(Q(RSign(m), 1), ratio)))

\* C12 as the specification words it: over a zero hessian and a nonzero
\* momentum the ratio is the upper bound of the variant exactly.
C12_AsStated ==
    last.op = "step" =>
        \A p \in last.updated :
            last.state[p].hessian = Zero /\ state[p].exp_avg # Zero =>
                param[p] = Shifted(Decayed(OptionsOf(p), last.param[p]),
                                   ScaleOf(variant, OptionsOf(p), last.param[p]),
                                   state[p].exp_avg,
                                   UpperOf(variant, OptionsOf(p), last.param[p]))

\* C12: when step runs on a parameter whose hessian is zero and whose updated
\* momentum m is nonzero, the ratio is min(|m| / 1e-15, bound) with the bound
\* of the variant (1 for Base and OG, step_size_rel for RMS and RMSD): it is
\* positive, finite and never above the bound, and it equals the bound exactly
\* when |m| >= 1e-15 * bound; a smaller momentum gives the ratio |m| / 1e-15
\* below the bound.
C12_ClampBoundary ==
    last.op = "step" =>
        \A p \in last.updated :
            last.state[p].hessian = Zero /\ state[p].exp_avg # Zero =>
                /\ param[p] =
                       Shifted(Decayed(OptionsOf(p), last.param[p]),
                               ScaleOf(variant, OptionsOf(p), last.param[p]),
                               state[p].exp_avg,
                               EpsRatio(state[p].exp_avg,
                                        UpperOf(variant, OptionsOf(p), last.param[p])))
                /\ RLt(Zero, EpsRatio(state[p].exp_avg,
                                      UpperOf(variant, OptionsOf(p), last.param[p])))
                /\ RLe(RMul(Norm(1, 1, 0 - 15),
                            UpperOf(variant, OptionsOf(p), last.param[p])),
                       RAbs(state[p].exp_avg)) =>
                       EpsRatio(state[p].exp_avg,
                                UpperOf(variant, OptionsOf(p), last.param[p]))
                           = UpperOf(variant, OptionsOf(p), last.param[p])

\* a step over a zero hessian whose momentum is too small to reach the clamp
C12_Reached ==
    /\ last.op = "step"
    /\ \E p \in last.updated :
          /\ last.state[p].hessian = Zero /\ state[p].exp_avg # Zero
          /\ RLt(RDiv(RAbs(state[p].exp_avg), Norm(1, 1, 0 - 15)),
                 UpperOf(variant, OptionsOf(p), last.param[p]))
          /\ param[p] # Decayed(OptionsOf(p), last.param[p])

\* b^n
RECURSIVE RPow(_, _)
RPow(b, n) == IF n = 0 THEN One ELSE RMul(b, RPow(b, n - 1))

\* g * g of the gradient of p
SquareOf(p) == RMul(grad[p].val, grad[p].val)

\* after n = calls update_hessian calls on the constant gradient g the hessian
\* is g * g * (1 - beta2^n), not below what it was, not above g * g, and
\* g * g is a fixed point of the update
EmaClosedForm ==
    last.op = "update_hessian" =>
        \A p \in Params :
            grad[p].kind = "dense" =>
                /\ state[p].hessian =
                       RMul(SquareOf(p),
                            RSub(One, RPow(OptionsOf(p).beta2, calls)))
                /\ RLe(last.state[p].hessian, state[p].hessian)
                /\ RLe(state[p].hessian, SquareOf(p))
                /\ HessianEma(OptionsOf(p).beta2, SquareOf(p), grad[p].val)
                       = SquareOf(p)

\* the distance to g * g that the runs get under: an eighth of g * g
Tolerance == Q(1, 8)
EmaWithin ==
    \A p \in Params :
        grad[p].kind = "dense" =>
            RLe(RSub(SquareOf(p), state[p].hessian), RMul(Tolerance, SquareOf(p)))

\* C13: from a zero hessian, update_hessian called repeatedly with a constant
\* gradient g and beta2 in [0, 1) leaves after n calls the hessian
\* g * g * (1 - beta2^n); the hessian never decreases and never exceeds g * g,
\* g * g is a fixed point of the update, and the hessian eventually comes and
\* stays within the tolerance of g * g.
C13_Convergence == [](EmaClosedForm) /\ <>[](EmaWithin)

\* four calls or more on a nonzero gradient have brought the hessian within
\* the tolerance, short of g * g
C13_Reached ==
    /\ last.op = "update_hessian" /\ calls >= 4
    /\ EmaWithin
    /\ \E p \in Params :
          /\ grad[p].kind = "dense" /\ grad[p].val # Zero
          /\ OptionsOf(p).beta2 = Q(3, 4)
          /\ RLt(state[p].hessian, SquareOf(p))
          /\ RLt(last.state[p].hessian, state[p].hessian)

\* every capturable group has what capturable mode asks for: the parameters
\* on the accelerator, bs wrapped into a tensor on it by step, and the step
\* counters that exist on it
OnDevice ==
    \A p \in Params :
        OptionsOf(p).capturable =>
            /\ cuda
            /\ defaults.capturable
            /\ last.state[p].keys # {} => last.state[p].step.cuda

\* C14: with a configuration that passed the constructor's checks and dense
\* gradients, step completes without raising, in non-capturable mode and in
\* capturable mode with the parameter, step counter and batch size on the
\* accelerator; the sparse-gradient error is the only error of step.
C14_NoOtherError ==
    /\ last.op = "step"
    /\ \A p \in Params : grad[p].kind # "sparse"
    /\ OnDevice
    => last.err = "ok"

\* the hessian that an update_hessian call makes of h
Averaged(p, h) ==
    RAdd(RMul(OptionsOf(p).beta2, h),
         RMul(RSub(One, OptionsOf(p).beta2), SquareOf(p)))

\* the last call made the record of p: it had a dense gradient, and its
\* buffers hold what the call itself makes of zeros
Created(p) ==
    /\ grad[p].kind = "dense"
    /\ {"step", "exp_avg", "hessian"} \subseteq state[p].keys
    /\ state[p].step.tensor
    /\ IF last.op = "update_hessian"
       THEN /\ state[p].step.val = Zero
            /\ state[p].exp_avg = Zero
            /\ state[p].hessian = Averaged(p, Zero)
       ELSE /\ state[p].hessian = Zero
            /\ IF p \in last.updated
               THEN /\ state[p].step.val = One
                    /\ state[p].exp_avg = Momentum(OptionsOf(p), Zero, grad[p].val)
               ELSE state[p].step.val \in {Zero, One}

\* the last call has not started the record of p over: the counter and the
\* momentum are as they were or one update further
Continued(p) ==
    IF last.op = "update_hessian"
    THEN /\ state[p].step = last.state[p].step
         /\ state[p].exp_avg = last.state[p].exp_avg
    ELSE /\ state[p].step.val \in {last.state[p].step.val,
                                   RAdd(last.state[p].step.val, One)}
         /\ state[p].exp_avg \in {last.state[p].exp_avg,
                                  Momentum(OptionsOf(p), last.state[p].exp_avg,
                                           grad[p].val)}
         /\ p \in last.updated =>
               state[p].step.val = RAdd(last.state[p].step.val, One)

\* the hessian of a record that had one: averaged by update_hessian, left
\* alone by step
Kept(p) ==
    state[p].hessian =
        IF last.op = "update_hessian" /\ grad[p].kind = "dense"
        THEN Averaged(p, last.state[p].hessian)
        ELSE last.state[p].hessian

\* the hessian of a record that had none: a zero one is added when a call
\* gets to the parameter with a gradient (every call that returns does), and
\* not otherwise
Backfilled(p) ==
    /\ "hessian" \in state[p].keys =>
          /\ grad[p].kind = "dense"
          /\ state[p].hessian =
                 IF last.op = "update_hessian" THEN Averaged(p, Zero) ELSE Zero
    /\ grad[p].kind = "dense" /\ last.err = "ok" => "hessian" \in state[p].keys

\* C15: a record is made (step 0, momentum 0, hessian 0) only by a step or
\* update_hessian call that sees a gradient for a parameter that has none,
\* and no call starts an existing step counter, momentum or hessian over; a
\* record that exists without a hessian (restored) gets a zero hessian from
\* the next call that sees a gradient for it, its step counter and momentum
\* staying as restored but for the update of the call itself.
C15_StateCreation ==
    last.op \in {"update_hessian", "step"} =>
        \A p \in Params :
            /\ last.state[p].keys \subseteq state[p].keys
            /\ last.state[p].keys = {} /\ state[p].keys # {} => Created(p)
            /\ last.state[p].keys = {} /\ grad[p].kind # "dense" => state[p].keys = {}
            /\ last.state[p].keys # {} =>
                  /\ Continued(p)
                  /\ IF "hessian" \in last.state[p].keys THEN Kept(p)
                     ELSE Backfilled(p)

\* a step has run on a restored record without a hessian: it has one now,
\* and the counter went on from 3 to 4
C15_Reached ==
    /\ last.op = "step" /\ last.err = "ok"
    /\ \E p \in last.updated :
          /\ last.state[p].keys # {}
          /\ "hessian" \notin last.state[p].keys
          /\ "hessian" \in state[p].keys
          /\ state[p].step.val = Q(4, 1)
    /\ \E q \in Params : last.state[q].keys = {} /\ state[q].keys # {}

\* f with every parameter but p blanked
Alone(p, f, blank) == [q \in Params |-> IF q = p THEN f[q] ELSE blank]

\* the last call made again from where it started, with p the only parameter
\* that has a gradient, a record or a value other than zero
SoloStep(p) ==
    StepSweep(variant, defaults, param_groups, cuda, Alone(p, grad, NoGrad),
              last.bs, Alone(p, last.param, Zero), Alone(p, last.state, NoRec))
SoloHessian(p) ==
    UpdateHessianState(variant, defaults, param_groups, cuda,
                       Alone(p, grad, NoGrad), Alone(p, last.state, NoRec))

Untouched(p) == param[p] = last.param[p] /\ state[p] = last.state[p]

\* C16: a step or update_hessian call leaves a parameter without a gradient
\* as it was, value and record (none made, an existing one not modified); and
\* what the call does to a parameter it updates is what it would do were that
\* parameter the only one with a gradient, a record or a value.
C16_FrameEffect ==
    last.op \in {"update_hessian", "step"} =>
        \A p \in Params :
            /\ grad[p].kind = "none" => Untouched(p)
            /\ last.op = "step" /\ p \in last.updated =>
                  /\ param[p] = SoloStep(p).param[p]
                  /\ state[p] = SoloStep(p).state[p]
            /\ last.op = "update_hessian" /\ grad[p].kind = "dense" =>
                  /\ param[p] = last.param[p]
                  /\ state[p] = SoloHessian(p)[p]

\* a step has passed over a parameter that has a record and a weight decay
\* but no gradient, and has moved another parameter of the same group
C16_Reached ==
    /\ last.op = "step" /\ last.err = "ok"
    /\ \E p \in Params, q \in last.updated :
          /\ grad[p].kind = "none"
          /\ last.state[p].keys # {}
          /\ OptionsOf(p).weight_decay # Zero
          /\ GroupOf(q, 1) = GroupOf(p, 1)
          /\ param[q] # last.param[q]
          /\ Untouched(p)

\* |momentum| / (rho * bs * hessian + 1e-15), before the clamp
Quotient(c, bs, m, h) == RDiv(RAbs(m), AddEps(RMul(RMul(c.rho, Q(bs, 1)), h)))

\* how far the call has left parameter p from its weight-decayed value
Distance(p) == RAbs(RSub(param[p], Decayed(OptionsOf(p), last.param[p])))

\* the most a step may move parameter p: lr * max(1e-3, rms(param)) in the
\* base variant, rms taken of the weight-decayed parameter as step_size takes
\* it, and lr * the clamp's bound in the others
Reach(p) ==
    RMul(OptionsOf(p).lr,
         IF variant = "G"
         THEN RMax(Norm(1, 1, 0 - 3), RAbs(Decayed(OptionsOf(p), last.param[p])))
         ELSE BoundOf(variant, OptionsOf(p), last.param[p]))

\* C17: from a new optimizer, with rho >= 0 and bs > 0, no update_hessian or
\* step call leaves a hessian below zero; so for every parameter a step
\* updates, |momentum| / (rho * bs * hessian + 1e-15) is >= 0 with no lower
\* clamp, the ratio is between 0 and its upper bound (1 in Base and OG,
\* step_size_rel in RMS and RMSD), and the parameter ends at most
\* lr * max(1e-3, rms(param)) from its weight-decayed value in Base (at most
\* lr * upper bound in the others).
C17_RatioRange ==
    /\ \A p \in Params :
          "hessian" \in state[p].keys => RLe(Zero, state[p].hessian)
    /\ last.op = "step" =>
          \A p \in last.updated :
              /\ RLe(Zero, OptionsOf(p).rho) /\ last.bs > 0
              /\ RLe(Zero, Quotient(OptionsOf(p), last.bs, state[p].exp_avg,
                                    last.state[p].hessian))
              /\ RLe(Zero, Clamped(OptionsOf(p), last.bs, state[p].exp_avg,
                                   last.state[p].hessian,
                                   BoundOf(IF variant = "G" THEN "OG" ELSE variant,
                                           OptionsOf(p), last.param[p])))
              /\ RLe(Clamped(OptionsOf(p), last.bs, state[p].exp_avg,
                             last.state[p].hessian,
                             BoundOf(IF variant = "G" THEN "OG" ELSE variant,
                                     OptionsOf(p), last.param[p])),
                     BoundOf(IF variant = "G" THEN "OG" ELSE variant,
                             OptionsOf(p), last.param[p]))
              /\ RLe(Distance(p), Reach(p))

\* a base step on a hessian above zero has moved a parameter, by less than
\* the most it may
C17_Reached ==
    /\ variant = "G" /\ last.op = "step"
    /\ \E p \in last.updated :
          /\ RLt(Zero, last.state[p].hessian)
          /\ RLt(Zero, Distance(p))
          /\ RLt(Distance(p), Reach(p))
====
